---- MODULE Spec2Model ----
(***************************************************************************)
(* Model of process_tdl_invoice (auto_tdl_v1.1_stable.py): loading the     *)
(* reference table, recognising line items page by page, extracting the    *)
(* invoice number and the additional charges, and summarising by GL        *)
(* description.                                                            *)
(*                                                                         *)
(* Text is a sequence of symbols.  A symbol is one character ("0".."9",    *)
(* ".", ":", " ", "\n", "x") or one of the literal labels the regular      *)
(* expressions look for ("Invoice Number", "Tariff Allocation",            *)
(* "Fuel Surcharge", "GST/HST/VAT"), kept as a single symbol.  Amounts are *)
(* integer cents; the texts the model reads carry at most two fractional   *)
(* digits, for which float() and round(x, 2) are exact in cents.           *)
(***************************************************************************)
EXTENDS Integers, Sequences, FiniteSets, TLC

\* -------------------------------------------------------------------------
\* Bounds of the model
\* -------------------------------------------------------------------------
MaxTokens == 4
MaxPages == 2
MaxRows == 2
MaxFooter == 4

\* -------------------------------------------------------------------------
\* Characters
\* -------------------------------------------------------------------------
Digits == {"0", "1", "2", "3", "4", "5", "6", "7", "8", "9"}

Whitespace == {" ", "\n", "\t"}

DigitVal(c) ==
  CASE c = "0" -> 0 [] c = "1" -> 1 [] c = "2" -> 2 [] c = "3" -> 3
    [] c = "4" -> 4 [] c = "5" -> 5 [] c = "6" -> 6 [] c = "7" -> 7
    [] c = "8" -> 8 [] c = "9" -> 9

DigitChar(d) ==
  CASE d = 0 -> "0" [] d = 1 -> "1" [] d = 2 -> "2" [] d = 3 -> "3"
    [] d = 4 -> "4" [] d = 5 -> "5" [] d = 6 -> "6" [] d = 7 -> "7"
    [] d = 8 -> "8" [] d = 9 -> "9"

\* s[i..j) as a sequence
Slice(s, i, j) == [k \in 1..(j - i) |-> s[i + k - 1]]

\* index just after the maximal run of digits starting at i  (\d* at i)
RECURSIVE DigitRunEnd(_, _)
DigitRunEnd(s, i) ==
  IF i <= Len(s) /\ s[i] \in Digits THEN DigitRunEnd(s, i + 1) ELSE i

\* index just after the maximal run of whitespace starting at i  (\s* at i)
RECURSIVE SpaceRunEnd(_, _)
SpaceRunEnd(s, i) ==
  IF i <= Len(s) /\ s[i] \in Whitespace THEN SpaceRunEnd(s, i + 1) ELSE i

\* -------------------------------------------------------------------------
\* Line item recognition (lines 101-127)
\* -------------------------------------------------------------------------

\* variant: the pattern without its trailing \s
ItemCodeLengths_NoSpace(line) ==
  {n \in 5..8 : n <= Len(line) /\ \A k \in 1..n : line[k] \in Digits}

\* re.match(r'^(\d{5,8})\s', line): the repetition counts for which the
\* pattern matches; group(1) is the first n symbols for the n chosen.
ItemCodeLengths(line) ==
  {n \in 5..8 : /\ n + 1 <= Len(line)
               /\ \A k \in 1..n : line[k] \in Digits
               /\ line[n + 1] \in Whitespace}

\* str.zfill(width) on a digit string
zfill(s, width) ==
  IF Len(s) >= width THEN s
  ELSE [k \in 1..width |-> IF k <= width - Len(s) THEN "0" ELSE s[k - (width - Len(s))]]

\* lines 103-108: the item code of the line, <<>> when the line is no item line
ItemCodeOf(line) ==
  IF ItemCodeLengths(line) = {} THEN <<>>
  ELSE LET n == CHOOSE m \in ItemCodeLengths(line) :
                  \A o \in ItemCodeLengths(line) : o <= m
           item_code == Slice(line, 1, n + 1)
       IN IF Len(item_code) < 8 THEN zfill(item_code, 8) ELSE item_code

\* text.split(sep) for a one-symbol separator: the pieces between separators
RECURSIVE SplitOn(_, _, _, _)
SplitOn(s, sep, i, cur) ==
  IF i > Len(s) THEN <<cur>>
  ELSE IF s[i] = sep THEN <<cur>> \o SplitOn(s, sep, i + 1, <<>>)
  ELSE SplitOn(s, sep, i + 1, Append(cur, s[i]))

\* line.split(): the maximal runs of non-whitespace symbols
RECURSIVE SplitWs(_, _, _)
SplitWs(s, i, cur) ==
  IF i > Len(s) THEN (IF cur = <<>> THEN <<>> ELSE <<cur>>)
  ELSE IF s[i] \in Whitespace
       THEN (IF cur = <<>> THEN <<>> ELSE <<cur>>) \o SplitWs(s, i + 1, <<>>)
  ELSE SplitWs(s, i + 1, Append(cur, s[i]))

split(line) == SplitWs(line, 1, <<>>)

\* re.match(r'^\d+\.?\d*$', part) or re.match(r'^\d+$', part)
IsNumber(part) ==
  LET e1 == DigitRunEnd(part, 1)
      e2 == IF e1 <= Len(part) /\ part[e1] = "." THEN e1 + 1 ELSE e1
      e3 == DigitRunEnd(part, e2)
  IN \/ (e1 > 1 /\ e3 = Len(part) + 1)
     \/ (e1 > 1 /\ e1 = Len(part) + 1)

\* lines 114-117
NumbersOf(line) == SelectSeq(split(line), IsNumber)

\* value of a digit string
RECURSIVE IntOf(_)
IntOf(ds) ==
  IF ds = <<>> THEN 0
  ELSE 10 * IntOf(SubSeq(ds, 1, Len(ds) - 1)) + DigitVal(ds[Len(ds)])

\* float(tok) for tok matching \d+\.?\d*, in cents (at most two fractional digits)
FloatOf(tok) ==
  LET e1 == DigitRunEnd(tok, 1)
      whole == Slice(tok, 1, e1)
      frac == IF e1 <= Len(tok) THEN Slice(tok, e1 + 1, Len(tok) + 1) ELSE <<>>
      f2 == IF Len(frac) = 0 THEN 0
            ELSE IF Len(frac) = 1 THEN 10 * DigitVal(frac[1])
            ELSE 10 * DigitVal(frac[1]) + DigitVal(frac[2])
  IN 100 * IntOf(whole) + f2

\* int(x) of a float in cents: truncation to whole units
IntTrunc(cents) == cents \div 100

\* variant: the quantity read one numeric token too early
QtyOf_OffByOne(numbers) == IntTrunc(FloatOf(numbers[0 + 1]))

\* line 125
QtyOf(numbers) == IntTrunc(FloatOf(numbers[1 + 1]))

\* line 126
UnitPriceOf(numbers) == FloatOf(numbers[3 + 1])

\* line 127: round(qty * unit_price, 2), in cents
LineTotalOf(qty, unit_price) == qty * unit_price

\* -------------------------------------------------------------------------
\* Header and footer fields (lines 92-97, 150-170)
\* -------------------------------------------------------------------------

\* \d+\.\d+ at i: the index just after the match, 0 when there is none
DecimalEnd(s, i) ==
  LET e1 == DigitRunEnd(s, i)
      e2 == DigitRunEnd(s, e1 + 1)
  IN IF e1 > i /\ e1 <= Len(s) /\ s[e1] = "." /\ e2 > e1 + 1 THEN e2 ELSE 0

\* \s+ at i: the index just after the match, 0 when there is none
SpacesEnd(s, i) ==
  LET e == SpaceRunEnd(s, i) IN IF i >= 1 /\ e > i THEN e ELSE 0

\* label\s+(\d+\.\d+) at i: group(1), <<>> when there is no match at i
LabelDecimalAt(s, i, label) ==
  LET a == SpacesEnd(s, i + 1)
      b == IF a = 0 THEN 0 ELSE DecimalEnd(s, a)
  IN IF s[i] = label /\ a > 0 /\ b > 0 THEN Slice(s, a, b) ELSE <<>>

\* Fuel Surcharge\s+\d+\.\d+\s+0\.00\s+(\d+\.\d+) at i
FuelPrimaryAt(s, i) ==
  LET a == SpacesEnd(s, i + 1)
      b == IF a = 0 THEN 0 ELSE DecimalEnd(s, a)
      c == IF b = 0 THEN 0 ELSE SpacesEnd(s, b)
      z == c > 0 /\ c + 3 <= Len(s) /\ Slice(s, c, c + 4) = <<"0", ".", "0", "0">>
      d == IF z THEN SpacesEnd(s, c + 4) ELSE 0
      e == IF d = 0 THEN 0 ELSE DecimalEnd(s, d)
  IN IF s[i] = "Fuel Surcharge" /\ e > 0 THEN Slice(s, d, e) ELSE <<>>

\* Invoice Number\s*:\s*(\d+) at i
InvoiceAt(s, i) ==
  LET a == SpaceRunEnd(s, i + 1)
      b == IF a <= Len(s) /\ s[a] = ":" THEN SpaceRunEnd(s, a + 1) ELSE 0
      c == IF b = 0 THEN 0 ELSE DigitRunEnd(s, b)
  IN IF s[i] = "Invoice Number" /\ b > 0 /\ c > b THEN Slice(s, b, c) ELSE <<>>

\* re.search: group(1) of the leftmost match, <<>> when nothing matches
SearchInvoice(text) ==
  LET hits == {i \in 1..Len(text) : InvoiceAt(text, i) # <<>>}
  IN IF hits = {} THEN <<>>
     ELSE InvoiceAt(text, CHOOSE i \in hits : \A j \in hits : i <= j)

SearchLabelDecimal(text, label) ==
  LET hits == {i \in 1..Len(text) : LabelDecimalAt(text, i, label) # <<>>}
  IN IF hits = {} THEN <<>>
     ELSE LabelDecimalAt(text, CHOOSE i \in hits : \A j \in hits : i <= j, label)

SearchFuelPrimary(text) ==
  LET hits == {i \in 1..Len(text) : FuelPrimaryAt(text, i) # <<>>}
  IN IF hits = {} THEN <<>>
     ELSE FuelPrimaryAt(text, CHOOSE i \in hits : \A j \in hits : i <= j)

\* lines 153-155: the tariff amount after the last page
TariffOf(text, old) ==
  LET tariff_match == SearchLabelDecimal(text, "Tariff Allocation")
  IN IF tariff_match # <<>> THEN FloatOf(tariff_match) ELSE old

\* variant: the looser pattern tried first
FuelOf_FallbackFirst(text, old) ==
  LET fuel_match == SearchFuelPrimary(text)
      alt_match == SearchLabelDecimal(text, "Fuel Surcharge")
  IN IF alt_match # <<>> THEN FloatOf(alt_match)
     ELSE IF fuel_match # <<>> THEN FloatOf(fuel_match)
     ELSE old

\* lines 158-165: the fuel surcharge after the last page
FuelOf(text, old) ==
  LET fuel_match == SearchFuelPrimary(text)
      alt_match == SearchLabelDecimal(text, "Fuel Surcharge")
  IN IF fuel_match # <<>> THEN FloatOf(fuel_match)
     ELSE IF alt_match # <<>> THEN FloatOf(alt_match)
     ELSE old

\* lines 168-170: the tax amount after the last page
GstOf(text, old) ==
  LET gst_match == SearchLabelDecimal(text, "GST/HST/VAT")
  IN IF gst_match # <<>> THEN FloatOf(gst_match) ELSE old

\* -------------------------------------------------------------------------
\* Reference table (lines 38-44, 62-74, 129-136)
\* -------------------------------------------------------------------------
required_cols == <<"Item Code", "GL Code", "GL Description">>

\* str(n) of a non-negative integer
RECURSIVE StrOfInt(_)
StrOfInt(n) ==
  IF n < 10 THEN <<DigitChar(n)>>
  ELSE Append(StrOfInt(n \div 10), DigitChar(n % 10))

\* astype(str) of one cell: a number cell prints its digits, a text cell is kept
AsStr(cell) == IF cell.kind = "int" THEN StrOfInt(cell.val) ELSE cell.val

\* lines 40, 74: db["Item Code"] = db["Item Code"].astype(str)
AsTypeStr(rows) ==
  [k \in 1..Len(rows) |-> [code |-> AsStr(rows[k].code),
                           gl_code |-> rows[k].gl_code,
                           gl_desc |-> rows[k].gl_desc]]

\* lines 67-68
MissingCols(columns) ==
  SelectSeq(required_cols, LAMBDA col : col \notin columns)

\* line 133: db[db["Item Code"] == item_code], the matching rows in table order
MatchRows(table, item_code) ==
  SelectSeq(table, LAMBDA row : row.code = item_code)

\* variant: the last matching row instead of the first
LookupGL_Last(table, item_code) ==
  LET match == MatchRows(table, item_code)
  IN IF match # <<>> THEN <<match[Len(match)].gl_code, match[Len(match)].gl_desc>>
     ELSE <<"NOT_FOUND", "NOT_FOUND">>

\* lines 130-136: <<gl_code, gl_desc>> of an item code
LookupGL(table, item_code) ==
  LET match == MatchRows(table, item_code)
  IN IF match # <<>> THEN <<match[1].gl_code, match[1].gl_desc>>
     ELSE <<"NOT_FOUND", "NOT_FOUND">>

\* -------------------------------------------------------------------------
\* Summary (lines 190-207)
\* -------------------------------------------------------------------------

\* variant: the entry overwritten instead of added to
DictAdd_Overwrite(summary, key, amount) ==
  IF \E k \in 1..Len(summary) : summary[k][1] = key
  THEN [k \in 1..Len(summary) |->
          IF summary[k][1] = key THEN <<key, amount>> ELSE summary[k]]
  ELSE Append(summary, <<key, amount>>)

\* summary[gl_desc] = summary.get(gl_desc, 0) + line_total on an
\* insertion-ordered dict, kept as a sequence of <<key, value>>
DictAdd(summary, key, amount) ==
  IF \E k \in 1..Len(summary) : summary[k][1] = key
  THEN [k \in 1..Len(summary) |->
          IF summary[k][1] = key THEN <<key, summary[k][2] + amount>> ELSE summary[k]]
  ELSE Append(summary, <<key, amount>>)

\* lines 191-194
RECURSIVE Summarize(_, _)
Summarize(its, summary) ==
  IF its = <<>> THEN summary
  ELSE Summarize(Tail(its), DictAdd(summary, Head(its).gl_desc, Head(its).line_total))

\* variant: an unstable order, e goes before the entries of equal value
InsertDesc_Unstable(sorted, e) ==
  LET before == {k \in 0..Len(sorted) : \A j \in 1..k : sorted[j][2] > e[2]}
      pos == CHOOSE k \in before : \A j \in before : j <= k
  IN SubSeq(sorted, 1, pos) \o <<e>> \o SubSeq(sorted, pos + 1, Len(sorted))

\* one step of a stable descending sort: e goes after every entry whose value
\* is greater than or equal to its own
InsertDesc(sorted, e) ==
  LET before == {k \in 0..Len(sorted) : \A j \in 1..k : sorted[j][2] >= e[2]}
      pos == CHOOSE k \in before : \A j \in before : j <= k
  IN SubSeq(sorted, 1, pos) \o <<e>> \o SubSeq(sorted, pos + 1, Len(sorted))

\* line 200: sorted(summary.items(), key=lambda x: x[1], reverse=True)
RECURSIVE SortedDesc(_, _)
SortedDesc(entries, acc) ==
  IF entries = <<>> THEN acc
  ELSE SortedDesc(Tail(entries), InsertDesc(acc, Head(entries)))

\* lines 199-202: total_amount accumulated over the sorted entries
RECURSIVE SumValues(_)
SumValues(entries) ==
  IF entries = <<>> THEN 0 ELSE Head(entries)[2] + SumValues(Tail(entries))

\* -------------------------------------------------------------------------
\* Inputs: the reference workbooks and the invoice documents the model reads
\* -------------------------------------------------------------------------
SeqsUpTo(S, n) == UNION {[1..k -> S] : k \in 0..n}

\* the pieces joined, each preceded by sep
RECURSIVE JoinAfter(_, _)
JoinAfter(pieces, sep) ==
  IF pieces = <<>> THEN <<>>
  ELSE sep \o Head(pieces) \o JoinAfter(Tail(pieces), sep)

\* the first symbols of a line: digit runs of 4, 5, 7, 8 and 9 digits, a run
\* that ends in a letter, a run that ends in a tab
HeadTokens ==
  {<<"1", "2", "3", "4">>,
   <<"1", "2", "3", "4", "5">>,
   <<"0", "0", "5", "4", "3", "2", "1">>,
   <<"0", "0", "0", "1", "2", "3", "4", "5">>,
   <<"1", "2", "3", "4", "5", "6", "7", "8", "9">>,
   <<"1", "2", "3", "4", "5", "x">>,
   <<"5", "4", "3", "2", "1", "\t">>}

\* the tokens that follow: an integer, decimals, text
BodyTokens ==
  {<<"3">>, <<"2", ".", "5", "0">>, <<"7", ".">>, <<"x">>}

ItemLines ==
  {h \o JoinAfter(b, <<" ">>) : h \in HeadTokens, b \in SeqsUpTo(BodyTokens, MaxTokens)}

FooterTokens ==
  {<<"Fuel Surcharge">>, <<"4", ".", "2", "0">>, <<"0", ".", "0", "0">>,
   <<"3", ".", "7", "5">>, <<"x">>}

FooterTexts ==
  {Tail(JoinAfter(f, <<" ">>)) : f \in SeqsUpTo(FooterTokens, MaxFooter) \ {<<>>}}

PageA ==
  <<"Invoice Number", ":", " ", "5", "0", "7", "\n", "0", "0", "0", "1", "2",
    "3", "4", "5", " ", "1", "0", " ", "0", ".", "0", "0", " ", "2", ".",
    "5", "0", " ", "2", "5", ".", "0", "0", "\n", "5", "4", "3", "2", "1",
    " ", "5", " ", "0", ".", "0", "0", " ", "1", "0", ".", "0", "0", " ",
    "5", "0", ".", "0", "0">>

PageB ==
  <<"0", "0", "0", "0", "0", "7", "7", "7", " ", "4", " ", ".", "5", " ", "2",
    ".", "5", "0", " ", "1", " ", "2", ".", "5", "0", "\n",
    "Tariff Allocation", " ", "1", ".", "2", "5", "\n", "Fuel Surcharge",
    " ", "1", "2", ".", "5", "0", " ", "0", ".", "0", "0", " ", "3", ".",
    "7", "5", "\n", "GST/HST/VAT", " ", "0", ".", "6", "5">>

PageC ==
  <<"Invoice Number", " ", ":", " ", "9", "\n", "5", "4", "3", "2", "1", " ",
    "1", " ", "0", ".", "0", "0", " ", "2", "5", ".", "0", "0", "\n",
    "Fuel Surcharge", " ", "4", ".", "2", "0", "\n", "Fuel Surcharge", " ",
    "1", "2", ".", "5", "0", " ", "0", ".", "0", "0", " ", "3", ".", "7",
    "5", "\n", "Tariff Allocation", "\n", "7", ".", "0", "0">>

PageD ==
  <<"1", "2", "3", "4", "5", " ", "2", " ", "0", ".", "0", "0", " ", "1",
    "2", ".", "5", "0", " ", "2", "5", ".", "0", "0", "\n", "Fuel Surcharge",
    " ", "4", ".", "2", "0", " ", "x", "\n", "GST/HST/VAT", " ", "1", ".",
    "3">>

PageTexts == {PageA, PageB, PageC, PageD}

RowFood ==
  [code |-> [kind |-> "str", val |-> <<"0", "0", "0", "1", "2", "3", "4", "5">>],
   gl_code |-> "5010", gl_desc |-> "Food"]

RowPaperNum ==
  [code |-> [kind |-> "int", val |-> 54321], gl_code |-> "5020", gl_desc |-> "Paper"]

RowPaper ==
  [code |-> [kind |-> "str", val |-> <<"0", "0", "0", "5", "4", "3", "2", "1">>],
   gl_code |-> "5020", gl_desc |-> "Paper"]

RowDairy ==
  [code |-> [kind |-> "str", val |-> <<"0", "0", "0", "1", "2", "3", "4", "5">>],
   gl_code |-> "5030", gl_desc |-> "Dairy"]

Rows == {RowFood, RowPaper, RowDairy}

AllCols == {"Item Code", "GL Code", "GL Description", "Vendor"}

Workbook(rows) ==
  [exists |-> TRUE, readable |-> TRUE, columns |-> AllCols, rows |-> rows]

GoodWorkbooks == {Workbook(r) : r \in SeqsUpTo(Rows, MaxRows)}

BadWorkbooks ==
  {[exists |-> FALSE, readable |-> FALSE, columns |-> AllCols, rows |-> <<RowFood>>],
   [exists |-> TRUE, readable |-> FALSE, columns |-> AllCols, rows |-> <<RowFood>>]}
  \cup {[exists |-> TRUE, readable |-> TRUE, columns |-> AllCols \ {c},
         rows |-> <<RowFood, RowPaper>>] : c \in {"Item Code", "GL Code", "GL Description"}}

Document(pages) == [exists |-> TRUE, readable |-> TRUE, pages |-> pages]

BadDocuments ==
  {[exists |-> FALSE, readable |-> FALSE, pages |-> <<PageA>>],
   [exists |-> TRUE, readable |-> FALSE, pages |-> <<PageA>>]}

\* one-line and one-footer documents against a fixed workbook, whole documents
\* against every workbook, and the workbooks and documents that cannot be read
Inputs ==
  {[excel |-> Workbook(<<RowFood, RowPaperNum>>), pdf |-> Document(<<l>>)] :
      l \in ItemLines \cup FooterTexts}
  \cup {[excel |-> w, pdf |-> Document(d)] :
      w \in GoodWorkbooks \cup BadWorkbooks, d \in SeqsUpTo(PageTexts, MaxPages)}
  \cup {[excel |-> Workbook(<<RowFood>>), pdf |-> d] : d \in BadDocuments}

\* -------------------------------------------------------------------------
\* State
\* -------------------------------------------------------------------------
VARIABLES
  pc,              \* where process_tdl_invoice is
  excel,           \* the workbook at excel_file_path
  pdf,             \* the document at pdf_file_path
  db,              \* the loaded table
  opened,          \* pdfplumber.open has been called
  page_num,        \* index of the page being processed
  line_idx,        \* lines of the page already processed
  items, invoice_number, tariff_amount, fuel_surcharge, gst_hst_vat,
  summary,         \* the dict of lines 191-194, in insertion order
  report,          \* the summary lines printed, in order
  total_amount,    \* "Total Amount"
  grand_total      \* "Grand Total": total_amount plus the additional charges

vars == <<pc, excel, pdf, db, opened, page_num, line_idx, items, invoice_number,
          tariff_amount, fuel_surcharge, gst_hst_vat, summary, report,
          total_amount, grand_total>>

\* invoice_number = None is the empty sequence
Init ==
  /\ \E in \in Inputs : excel = in.excel /\ pdf = in.pdf
  /\ pc = "load"
  /\ db = <<>>
  /\ opened = FALSE
  /\ page_num = 0
  /\ line_idx = 0
  /\ items = <<>>
  /\ invoice_number = <<>>
  /\ tariff_amount = 0
  /\ fuel_surcharge = 0
  /\ gst_hst_vat = 0
  /\ summary = <<>>
  /\ report = <<>>
  /\ total_amount = 0
  /\ grand_total = 0

\* page.extract_text() of the current page
Text == pdf.pages[page_num + 1]

\* line 100: text.split('\n')
Lines == SplitOn(Text, "\n", 1, <<>>)

\* variant: an item whose code is not in the table is dropped
Recognize_DropUnmapped(line, table) ==
  LET item_code == ItemCodeOf(line)
      numbers == NumbersOf(line)
  IN IF item_code = <<>> THEN <<>>
     ELSE IF Len(numbers) < 4 THEN <<>>
     ELSE IF MatchRows(table, item_code) = <<>> THEN <<>>
     ELSE LET qty == QtyOf(numbers)
              unit_price == UnitPriceOf(numbers)
              gl == LookupGL(table, item_code)
          IN <<[item_code |-> item_code, qty |-> qty, unit_price |-> unit_price,
                line_total |-> LineTotalOf(qty, unit_price),
                gl_code |-> gl[1], gl_desc |-> gl[2]]>>

\* lines 103-148 for one line: the items it appends
Recognize(line, table) ==
  LET item_code == ItemCodeOf(line)
      numbers == NumbersOf(line)
  IN IF item_code = <<>> THEN <<>>
     ELSE IF Len(numbers) < 4 THEN <<>>
     ELSE LET qty == QtyOf(numbers)
              unit_price == UnitPriceOf(numbers)
              gl == LookupGL(table, item_code)
          IN <<[item_code |-> item_code, qty |-> qty, unit_price |-> unit_price,
                line_total |-> LineTotalOf(qty, unit_price),
                gl_code |-> gl[1], gl_desc |-> gl[2]]>>

\* -------------------------------------------------------------------------
\* Steps of process_tdl_invoice
\* -------------------------------------------------------------------------

\* variant: the failure is printed and the run goes on
LoadDatabase_Continue ==
  /\ pc = "load"
  /\ db' = AsTypeStr(excel.rows)
  /\ pc' = "check"
  /\ UNCHANGED <<excel, pdf, opened, page_num, line_idx, items, invoice_number,
                 tariff_amount, fuel_surcharge, gst_hst_vat, summary, report,
                 total_amount, grand_total>>

\* lines 38-44: read_excel(usecols=required) raises when the workbook cannot
\* be read or a required column is absent; the handler prints and returns
LoadDatabase ==
  /\ pc = "load"
  /\ IF excel.readable /\ MissingCols(excel.columns) = <<>>
     THEN db' = AsTypeStr(excel.rows) /\ pc' = "check"
     ELSE db' = db /\ pc' = "aborted"
  /\ UNCHANGED <<excel, pdf, opened, page_num, line_idx, items, invoice_number,
                 tariff_amount, fuel_surcharge, gst_hst_vat, summary, report,
                 total_amount, grand_total>>

\* lines 54-60
CheckFiles ==
  /\ pc = "check"
  /\ pc' = IF ~pdf.exists \/ ~excel.exists THEN "aborted" ELSE "reload"
  /\ UNCHANGED <<excel, pdf, db, opened, page_num, line_idx, items, invoice_number,
                 tariff_amount, fuel_surcharge, gst_hst_vat, summary, report,
                 total_amount, grand_total>>

\* lines 62-81
ReloadDatabase ==
  /\ pc = "reload"
  /\ IF MissingCols(excel.columns) # <<>>
     THEN db' = excel.rows /\ pc' = "aborted"
     ELSE db' = AsTypeStr(excel.rows) /\ pc' = "open"
  /\ items' = <<>>
  /\ invoice_number' = <<>>
  /\ tariff_amount' = 0
  /\ fuel_surcharge' = 0
  /\ gst_hst_vat' = 0
  /\ UNCHANGED <<excel, pdf, opened, page_num, line_idx, summary, report,
                 total_amount, grand_total>>

\* lines 83-88, 172-174: a document that cannot be opened raises, and the
\* handler prints and returns; a document without pages skips the loop
OpenPdf ==
  /\ pc = "open"
  /\ opened' = TRUE
  /\ pc' = IF ~pdf.readable THEN "aborted"
           ELSE IF Len(pdf.pages) = 0 THEN "summary" ELSE "page"
  /\ page_num' = 0
  /\ UNCHANGED <<excel, pdf, db, line_idx, items, invoice_number, tariff_amount,
                 fuel_surcharge, gst_hst_vat, summary, report, total_amount,
                 grand_total>>

\* lines 89-100: the invoice number, on the first page
BeginPage ==
  /\ pc = "page"
  /\ invoice_number' =
       IF page_num = 0 /\ invoice_number = <<>> /\ SearchInvoice(Text) # <<>>
       THEN SearchInvoice(Text) ELSE invoice_number
  /\ line_idx' = 0
  /\ pc' = "line"
  /\ UNCHANGED <<excel, pdf, db, opened, page_num, items, tariff_amount,
                 fuel_surcharge, gst_hst_vat, summary, report, total_amount,
                 grand_total>>

\* lines 101-148: one iteration of the loop over the lines of the page
ProcessLine ==
  /\ pc = "line"
  /\ line_idx < Len(Lines)
  /\ items' = items \o Recognize(Lines[line_idx + 1], db)
  /\ line_idx' = line_idx + 1
  /\ UNCHANGED <<pc, excel, pdf, db, opened, page_num, invoice_number,
                 tariff_amount, fuel_surcharge, gst_hst_vat, summary, report,
                 total_amount, grand_total>>

\* variant: the additional charges looked for on every page
EndPage_EveryPage ==
  /\ pc = "line"
  /\ line_idx = Len(Lines)
  /\ tariff_amount' = TariffOf(Text, tariff_amount)
  /\ fuel_surcharge' = FuelOf(Text, fuel_surcharge)
  /\ gst_hst_vat' = GstOf(Text, gst_hst_vat)
  /\ pc' = IF page_num = Len(pdf.pages) - 1 THEN "summary" ELSE "page"
  /\ page_num' = page_num + 1
  /\ line_idx' = 0
  /\ UNCHANGED <<excel, pdf, db, opened, items, invoice_number, summary, report,
                 total_amount, grand_total>>

\* lines 150-170: the additional charges, on the last page; then the next page
EndPage ==
  /\ pc = "line"
  /\ line_idx = Len(Lines)
  /\ IF page_num = Len(pdf.pages) - 1
     THEN /\ tariff_amount' = TariffOf(Text, tariff_amount)
          /\ fuel_surcharge' = FuelOf(Text, fuel_surcharge)
          /\ gst_hst_vat' = GstOf(Text, gst_hst_vat)
          /\ pc' = "summary"
     ELSE /\ UNCHANGED <<tariff_amount, fuel_surcharge, gst_hst_vat>>
          /\ pc' = "page"
  /\ page_num' = page_num + 1
  /\ line_idx' = 0
  /\ UNCHANGED <<excel, pdf, db, opened, items, invoice_number, summary, report,
                 total_amount, grand_total>>

\* lines 190-194
BuildSummary ==
  /\ pc = "summary"
  /\ summary' = Summarize(items, <<>>)
  /\ pc' = "print"
  /\ UNCHANGED <<excel, pdf, db, opened, page_num, line_idx, items, invoice_number,
                 tariff_amount, fuel_surcharge, gst_hst_vat, report, total_amount,
                 grand_total>>

\* lines 196-207
PrintSummary ==
  /\ pc = "print"
  /\ report' = SortedDesc(summary, <<>>)
  /\ total_amount' = SumValues(report')
  /\ grand_total' = total_amount' + tariff_amount + fuel_surcharge + gst_hst_vat
  /\ pc' = "done"
  /\ UNCHANGED <<excel, pdf, db, opened, page_num, line_idx, items, invoice_number,
                 tariff_amount, fuel_surcharge, gst_hst_vat, summary>>

Next ==
  \/ LoadDatabase
  \/ CheckFiles
  \/ ReloadDatabase
  \/ OpenPdf
  \/ BeginPage
  \/ ProcessLine
  \/ EndPage
  \/ BuildSummary
  \/ PrintSummary

Spec == Init /\ [][Next]_vars

\* -------------------------------------------------------------------------
\* Vocabulary of the properties, stated on the text itself
\* -------------------------------------------------------------------------

\* the line a ProcessLine step is about to read
CurLine == Lines[line_idx + 1]

AtLine == pc = "line" /\ line_idx < Len(Lines)

AllDigits(s) == \A k \in 1..Len(s) : s[k] \in Digits

\* number of digits at the start of the line
LeadRun(line) ==
  CHOOSE n \in 0..Len(line) :
    /\ \A k \in 1..n : line[k] \in Digits
    /\ n = Len(line) \/ line[n + 1] \notin Digits

\* the line starts with 5 to 8 digits followed by whitespace
StartsWithCode(line) ==
  /\ LeadRun(line) \in 5..8
  /\ LeadRun(line) < Len(line)
  /\ line[LeadRun(line) + 1] \in Whitespace

\* the whitespace-delimited tokens, as the set of their <<first, last>> positions
TokenStarts(line) ==
  {i \in 1..Len(line) :
     line[i] \notin Whitespace /\ (i = 1 \/ line[i - 1] \in Whitespace)}

TokenEnd(line, i) ==
  CHOOSE j \in i..Len(line) :
    /\ \A k \in i..j : line[k] \notin Whitespace
    /\ j = Len(line) \/ line[j + 1] \in Whitespace

TokenSpans(line) == {<<i, TokenEnd(line, i)>> : i \in TokenStarts(line)}

\* digits, or digits "." digits (the fractional digits may be missing)
NumericShape(t) ==
  \E n \in 1..Len(t) :
    /\ \A k \in 1..n : t[k] \in Digits
    /\ \/ n = Len(t)
       \/ t[n + 1] = "." /\ \A k \in (n + 2)..Len(t) : t[k] \in Digits

NumericSpans(line) ==
  {sp \in TokenSpans(line) : NumericShape(SubSeq(line, sp[1], sp[2]))}

\* the numeric token of index m (from 0), in the order of the line
NumericToken(line, m) ==
  LET sp == CHOOSE q \in NumericSpans(line) :
              Cardinality({r \in NumericSpans(line) : r[1] < q[1]}) = m
  IN SubSeq(line, sp[1], sp[2])

RECURSIVE Pow10(_)
Pow10(n) == IF n = 0 THEN 1 ELSE 10 * Pow10(n - 1)

RECURSIVE SumTo(_, _)
SumTo(f, n) == IF n = 0 THEN 0 ELSE f[n] + SumTo(f, n - 1)

\* the decimal value of a numeric token, in hundredths
Hundredths(t) ==
  LET dot == IF \E k \in 1..Len(t) : t[k] = "."
             THEN CHOOSE k \in 1..Len(t) : t[k] = "." ELSE Len(t) + 1
      w == [k \in 1..Len(t) |->
              IF k < dot THEN DigitVal(t[k]) * Pow10(dot - 1 - k) * 100
              ELSE IF k > dot /\ k <= dot + 2 THEN DigitVal(t[k]) * Pow10(dot + 2 - k)
              ELSE 0]
  IN SumTo(w, Len(t))

\* the whole part of a value in hundredths
WholePart(v) == CHOOSE q \in 0..v : 100 * q <= v /\ v < 100 * (q + 1)

\* the line is an item line: it starts with a code and has four numeric tokens
IsItemLine(line) == StartsWithCode(line) /\ Cardinality(NumericSpans(line)) >= 4

\* -------------------------------------------------------------------------
\* C1: every reference row whose item code is a digit string of 5 to 8 digits
\* is found by every item whose code is that string left-padded with zeros to
\* 8 characters: the item is not NOT_FOUND and carries the GL code and
\* description of such a row.
\* -------------------------------------------------------------------------
RowCanon(row) == zfill(AsStr(row.code), 8)

RowIsCode(row) == Len(AsStr(row.code)) \in 5..8 /\ AllDigits(AsStr(row.code))

C1_LookupHitsCanonicalRows ==
  \A k \in 1..Len(items) :
    (\E r \in 1..Len(excel.rows) :
        RowIsCode(excel.rows[r]) /\ RowCanon(excel.rows[r]) = items[k].item_code)
    => /\ items[k].gl_code # "NOT_FOUND"
       /\ \E r \in 1..Len(excel.rows) :
            /\ RowIsCode(excel.rows[r])
            /\ RowCanon(excel.rows[r]) = items[k].item_code
            /\ items[k].gl_code = excel.rows[r].gl_code
            /\ items[k].gl_desc = excel.rows[r].gl_desc

\* -------------------------------------------------------------------------
\* C2: a line that starts with 5 to 8 digits and whitespace yields an item
\* exactly when it has at least 4 numeric tokens; the item is the only one
\* added, its quantity is the whole part of numeric token 1 and its unit price
\* is numeric token 3, whatever non-numeric tokens stand in between.
\* -------------------------------------------------------------------------
C2_Step ==
  (AtLine /\ StartsWithCode(CurLine)) =>
     IF Cardinality(NumericSpans(CurLine)) >= 4
     THEN /\ Len(items') = Len(items) + 1
          /\ SubSeq(items', 1, Len(items)) = items
          /\ items'[Len(items')].qty = WholePart(Hundredths(NumericToken(CurLine, 1)))
          /\ items'[Len(items')].unit_price = Hundredths(NumericToken(CurLine, 3))
     ELSE items' = items

PaddedRun(line, code) ==
  LET n == LeadRun(line)
  IN /\ Len(code) = 8
     /\ \A k \in 1..(8 - n) : code[k] = "0"
     /\ \A k \in 1..n : code[8 - n + k] = line[k]

C3_CodesAreEightDigits ==
  \A k \in 1..Len(items) : Len(items[k].item_code) = 8 /\ AllDigits(items[k].item_code)

C3_Step ==
  (AtLine /\ items' # items) =>
     /\ StartsWithCode(CurLine)
     /\ Len(items') = Len(items) + 1
     /\ PaddedRun(CurLine, items'[Len(items')].item_code)

C3_ItemCodeCanonical == [](C3_CodesAreEightDigits) /\ [][C3_Step]_vars

\* an item has been read from a line whose code had fewer than 8 digits
C3_Witness ==
  /\ pc = "line" /\ line_idx >= 1
  /\ IsItemLine(Lines[line_idx])
  /\ LeadRun(Lines[line_idx]) < 8
  /\ items # <<>>
  /\ items[Len(items)].item_code[1] = "0"
  /\ PaddedRun(Lines[line_idx], items[Len(items)].item_code)

\* -------------------------------------------------------------------------
\* C4: the invoice number comes from the first page only and the tariff, fuel
\* surcharge and tax amounts from the last page only; a field without a match
\* on its page keeps its default, and a document without pages yields no item,
\* the defaults and totals of 0.
\* -------------------------------------------------------------------------
Finished == pc = "done"

LastPage == pdf.pages[Len(pdf.pages)]

C4_FinalFields ==
  Finished =>
    IF Len(pdf.pages) = 0
    THEN /\ items = <<>> /\ invoice_number = <<>>
         /\ tariff_amount = 0 /\ fuel_surcharge = 0 /\ gst_hst_vat = 0
         /\ total_amount = 0 /\ grand_total = 0
    ELSE /\ invoice_number = SearchInvoice(pdf.pages[1])
         /\ tariff_amount = TariffOf(LastPage, 0)
         /\ fuel_surcharge = FuelOf(LastPage, 0)
         /\ gst_hst_vat = GstOf(LastPage, 0)
         /\ SearchLabelDecimal(LastPage, "Tariff Allocation") = <<>> => tariff_amount = 0
         /\ SearchLabelDecimal(LastPage, "Fuel Surcharge") = <<>> => fuel_surcharge = 0
         /\ SearchLabelDecimal(LastPage, "GST/HST/VAT") = <<>> => gst_hst_vat = 0

C4_Step ==
  /\ (pc = "page" /\ page_num # 0) => invoice_number' = invoice_number
  /\ (pc = "line" /\ page_num # Len(pdf.pages) - 1) =>
       /\ tariff_amount' = tariff_amount
       /\ fuel_surcharge' = fuel_surcharge
       /\ gst_hst_vat' = gst_hst_vat
  /\ pc \notin {"page", "line"} =>
       /\ invoice_number' = invoice_number
       /\ tariff_amount' = tariff_amount
       /\ fuel_surcharge' = fuel_surcharge
       /\ gst_hst_vat' = gst_hst_vat

C4_FieldsByPageScope == [](C4_FinalFields) /\ [][C4_Step]_vars

\* a two-page document whose first page carries the charges and whose last
\* page carries an invoice number has been processed: neither was taken
C4_Witness ==
  /\ Finished
  /\ Len(pdf.pages) = 2
  /\ SearchLabelDecimal(pdf.pages[1], "Tariff Allocation") # <<>>
  /\ SearchFuelPrimary(pdf.pages[1]) # <<>>
  /\ SearchInvoice(pdf.pages[2]) # <<>>
  /\ invoice_number = <<>>
  /\ tariff_amount = 0 /\ fuel_surcharge = 0

\* -------------------------------------------------------------------------
\* C5: the summary lists, for each GL description among the items, the sum of
\* the line totals of its items, in descending order of the sums; of two
\* descriptions with equal sums the one met first among the items comes first.
\* -------------------------------------------------------------------------
RECURSIVE SumLineTotals(_, _)
SumLineTotals(its, descs) ==
  IF its = <<>> THEN 0
  ELSE (IF Head(its).gl_desc \in descs THEN Head(its).line_total ELSE 0)
       + SumLineTotals(Tail(its), descs)

Descriptions == {items[k].gl_desc : k \in 1..Len(items)}

FirstSeen(desc) ==
  CHOOSE k \in 1..Len(items) :
    items[k].gl_desc = desc /\ \A j \in 1..(k - 1) : items[j].gl_desc # desc

C5_CategoryTotalsOrdered ==
  Finished =>
    /\ Len(report) = Cardinality(Descriptions)
    /\ {report[k][1] : k \in 1..Len(report)} = Descriptions
    /\ \A k \in 1..Len(report) : report[k][2] = SumLineTotals(items, {report[k][1]})
    /\ \A k \in 1..Len(report) : \A j \in (k + 1)..Len(report) :
         \/ report[k][2] > report[j][2]
         \/ /\ report[k][2] = report[j][2]
            /\ FirstSeen(report[k][1]) < FirstSeen(report[j][1])

\* two descriptions with the same sum have been listed, the first of them
\* summed over two items
C5_Witness ==
  /\ Finished
  /\ \E k \in 1..Len(report) : \E j \in (k + 1)..Len(report) :
       report[k][2] = report[j][2] /\ report[k][2] > 0
  /\ \E k \in 1..Len(items) : \E j \in (k + 1)..Len(items) :
       items[k].gl_desc = items[j].gl_desc /\ items[k].gl_desc = report[1][1]

\* -------------------------------------------------------------------------
\* C6: the total amount is the sum of the line totals of all items and the sum
\* of the category totals, and the grand total is the total amount plus the
\* tariff, fuel surcharge and tax amounts (in cents).
\* -------------------------------------------------------------------------
C6_Totals ==
  Finished =>
    /\ total_amount = SumLineTotals(items, Descriptions)
    /\ total_amount = SumTo([k \in 1..Len(summary) |-> summary[k][2]], Len(summary))
    /\ grand_total = total_amount + tariff_amount + fuel_surcharge + gst_hst_vat

\* items of several categories, one category with two items, and all three
\* charges present
C6_Witness ==
  /\ Finished
  /\ Len(items) > Len(summary) /\ Len(summary) >= 2
  /\ tariff_amount > 0 /\ fuel_surcharge > 0 /\ gst_hst_vat > 0
  /\ total_amount > 0
  /\ grand_total > total_amount

\* -------------------------------------------------------------------------
\* C7: an item line whose code matches no row of the table still yields its
\* item, in line order, with GL code and description NOT_FOUND, and processing
\* goes on; its line total is part of the NOT_FOUND total and of the total
\* amount.
\* -------------------------------------------------------------------------
NoRowFor(code) == \A r \in 1..Len(excel.rows) : AsStr(excel.rows[r].code) # code

C7_Step ==
  /\ AtLine =>
       /\ pc' # "aborted"
       /\ Len(items') >= Len(items) /\ SubSeq(items', 1, Len(items)) = items
       /\ IsItemLine(CurLine) =>
            /\ Len(items') = Len(items) + 1
            /\ NoRowFor(items'[Len(items')].item_code) =>
                 /\ items'[Len(items')].gl_code = "NOT_FOUND"
                 /\ items'[Len(items')].gl_desc = "NOT_FOUND"
  /\ ~AtLine => items' = items

C7_FinalTotals ==
  Finished =>
    /\ \A k \in 1..Len(report) :
         report[k][1] = "NOT_FOUND" =>
           report[k][2] = SumLineTotals(items, {"NOT_FOUND"})
    /\ (\E k \in 1..Len(items) : items[k].gl_desc = "NOT_FOUND") =>
         /\ \E k \in 1..Len(report) : report[k][1] = "NOT_FOUND"
         /\ total_amount >= SumLineTotals(items, {"NOT_FOUND"})
         /\ total_amount - SumLineTotals(items, {"NOT_FOUND"})
              = SumLineTotals(items, Descriptions \ {"NOT_FOUND"})

C7_UnmappedItemsKept == [](C7_FinalTotals) /\ [][C7_Step]_vars

\* an unmapped item stands before a mapped one and is part of the totals
C7_Witness ==
  /\ Finished
  /\ \E k \in 1..Len(items) : \E j \in (k + 1)..Len(items) :
       /\ items[k].gl_code = "NOT_FOUND" /\ NoRowFor(items[k].item_code)
       /\ items[k].line_total > 0
       /\ items[j].gl_code # "NOT_FOUND"
  /\ \E k \in 1..Len(report) : report[k][1] = "NOT_FOUND" /\ report[k][2] > 0

\* -------------------------------------------------------------------------
\* C8: on the last page, when the label is followed by a decimal, a 0.00
\* field and a decimal, the fuel surcharge is that last decimal; only when no
\* such sequence stands anywhere on the page is it the decimal that follows
\* the label; without either it stays 0.
\* -------------------------------------------------------------------------

\* the tokens of a whole page, in order
PageTokens(text) ==
  LET spans == TokenSpans(text)
      nth(m) == CHOOSE q \in spans : Cardinality({r \in spans : r[1] < q[1]}) = m - 1
  IN [m \in 1..Cardinality(spans) |-> SubSeq(text, nth(m)[1], nth(m)[2])]

\* digits "." digits
DecimalShape(t) ==
  \E n \in 1..(Len(t) - 2) :
    /\ t[n + 1] = "."
    /\ \A k \in 1..Len(t) : k # n + 1 => t[k] \in Digits

\* the longest decimal a token starts with, <<>> when it starts with none
LeadingDecimal(t) ==
  LET lens == {n \in 1..Len(t) : DecimalShape(SubSeq(t, 1, n))}
  IN IF lens = {} THEN <<>>
     ELSE SubSeq(t, 1, CHOOSE n \in lens : \A m \in lens : m <= n)

EndsWithLabel(t, label) == t # <<>> /\ t[Len(t)] = label

\* token positions at which the two fuel surcharge layouts stand
PrimaryLayouts(toks) ==
  {m \in 1..(Len(toks) - 3) :
     /\ EndsWithLabel(toks[m], "Fuel Surcharge")
     /\ DecimalShape(toks[m + 1])
     /\ toks[m + 2] = <<"0", ".", "0", "0">>
     /\ LeadingDecimal(toks[m + 3]) # <<>>}

FallbackLayouts(toks) ==
  {m \in 1..(Len(toks) - 1) :
     /\ EndsWithLabel(toks[m], "Fuel Surcharge")
     /\ LeadingDecimal(toks[m + 1]) # <<>>}

First(S) == CHOOSE m \in S : \A n \in S : m <= n

ExpectedFuel(text) ==
  LET toks == PageTokens(text)
  IN IF PrimaryLayouts(toks) # {}
     THEN Hundredths(LeadingDecimal(toks[First(PrimaryLayouts(toks)) + 3]))
     ELSE IF FallbackLayouts(toks) # {}
     THEN Hundredths(LeadingDecimal(toks[First(FallbackLayouts(toks)) + 1]))
     ELSE 0

C8_FuelSurchargeTwoTier ==
  (Finished /\ Len(pdf.pages) > 0) => fuel_surcharge = ExpectedFuel(LastPage)

\* the last page carried both layouts and the decimals they give differ: the
\* one after the 0.00 field was taken
C8_Witness ==
  /\ Finished /\ Len(pdf.pages) > 0
  /\ PrimaryLayouts(PageTokens(LastPage)) # {}
  /\ fuel_surcharge > 0
  /\ fuel_surcharge #
       Hundredths(LeadingDecimal(
         PageTokens(LastPage)[First(FallbackLayouts(PageTokens(LastPage))) + 1]))

\* -------------------------------------------------------------------------
\* C9: when two or more rows of the table carry the item code of an item, the
\* item gets the GL code and description of one of them.  As claimed: of the
\* last one in table order.  As the code has it: of the first one.
\* -------------------------------------------------------------------------
RowsFor(code) == {r \in 1..Len(excel.rows) : AsStr(excel.rows[r].code) = code}

C9_LastRowWins ==
  \A k \in 1..Len(items) :
    Cardinality(RowsFor(items[k].item_code)) >= 2 =>
      LET last == CHOOSE r \in RowsFor(items[k].item_code) :
                    \A q \in RowsFor(items[k].item_code) : q <= r
      IN /\ items[k].gl_code = excel.rows[last].gl_code
         /\ items[k].gl_desc = excel.rows[last].gl_desc

C9_FirstRowWins ==
  \A k \in 1..Len(items) :
    Cardinality(RowsFor(items[k].item_code)) >= 2 =>
      /\ items[k].gl_code = excel.rows[First(RowsFor(items[k].item_code))].gl_code
      /\ items[k].gl_desc = excel.rows[First(RowsFor(items[k].item_code))].gl_desc

\* an item whose code stands in two rows with different GL descriptions
C9_Witness ==
  \E k \in 1..Len(items) :
    \E r \in RowsFor(items[k].item_code) : \E q \in RowsFor(items[k].item_code) :
      /\ r < q
      /\ excel.rows[r].gl_desc # excel.rows[q].gl_desc
      /\ items[k].gl_desc = excel.rows[r].gl_desc

\* -------------------------------------------------------------------------
\* C10: when the workbook cannot be read or lacks a required column, the run
\* stops before the document is opened: nothing is extracted and no total is
\* produced.
\* -------------------------------------------------------------------------
BadWorkbook ==
  \/ ~excel.readable
  \/ \E c \in {"Item Code", "GL Code", "GL Description"} : c \notin excel.columns

C10_AbortBeforeExtraction ==
  BadWorkbook =>
    /\ pc \in {"load", "aborted"}
    /\ ~opened
    /\ items = <<>> /\ invoice_number = <<>>
    /\ tariff_amount = 0 /\ fuel_surcharge = 0 /\ gst_hst_vat = 0
    /\ summary = <<>> /\ report = <<>>
    /\ total_amount = 0 /\ grand_total = 0

\* the run has stopped on a workbook without one of the columns, with a
\* document that has pages
C10_Witness ==
  /\ pc = "aborted"
  /\ excel.readable
  /\ "GL Code" \notin excel.columns
  /\ Len(pdf.pages) > 0
  /\ ~opened

====
